---------------------------- MODULE Spec2Model ----------------------------
(***************************************************************************)
(* FeReader viewer state machine (src/main.py, class FeReaderWindow).      *)
(*                                                                         *)
(* State: the window's fields current_book_title, current_index,           *)
(* current_font_size, current_zoom, view_orientation, base_font_size and   *)
(* the two fields of self.renderer the window reads: pages (its length)    *)
(* and book_type.  One action per UI handler.                              *)
(*                                                                         *)
(* Zoom factors are counted in hundredths (1.0 is 100, the step 0.1 is 10) *)
(* so that val/100.0 of zoom_label_clicked is the integer val.  File paths *)
(* and titles are sequences of one-character strings.                      *)
(***************************************************************************)
EXTENDS Integers, Sequences, FiniteSets

\* ------------------------------------------------------------------ bounds
\* Largest page count a loader returns.
MaxPages == 3
\* Number of zoom_in / zoom_out clicks explored in one behaviour of SpecZoom.
MaxZoomOps == 2
\* Number of zoom_in / zoom_out clicks explored in one behaviour of Spec.
NavZoomOps == 1
\* Largest page count a loader returns in SpecZoom.
ZoomPages == 1

\* ------------------------------------------------------- program constants
MinZoom == 10
MaxZoom == 500
ZoomStep == 10
MinFontSize == 8
MaxFontSize == 60
FontStep == 2
MinPercent == 50
MaxPercent == 300
MinBaseSize == 8
MaxBaseSize == 48

\* ------------------------------------------------------------------ inputs
\* Two specifications share the actions and differ in the inputs they draw.
\* Spec explores loading and navigation in full and draws one value for each
\* zoom input; SpecZoom explores the zoom inputs in full on one PDF and one
\* EPUB path.

\* Values SettingsDialog.size_spin can return (its range is 8..48).
BaseSizes == {MinBaseSize, 20}
NavBaseSizes == {MinBaseSize}
\* Values QInputDialog.getInt can return (its range is 50..300).
Percents == {MinPercent, MaxPercent}
NavPercents == {MinPercent}
\* Values get_initial_zoom can return, in hundredths.
InitialZooms == {MinZoom, MaxZoom}
NavInitialZooms == {MaxZoom}

Str_a_pdf == <<"a", ".", "p", "d", "f">>
Str_A_Pdf == <<"d", "/", "A", ".", "P", "d", "f">>
Str_b_EPUB == <<"b", ".", "E", "P", "U", "B">>
Str_c_txt == <<"c", ".", "t", "x", "t">>
Str_dot_pdf == <<".", "p", "d", "f">>
\* Paths QFileDialog.getOpenFileName can return; <<>> is a cancelled dialog.
Paths == {<< >>, Str_a_pdf, Str_A_Pdf, Str_b_EPUB, Str_c_txt, Str_dot_pdf}
ZoomPaths == {Str_a_pdf, Str_b_EPUB}

ExtPdf == <<".", "p", "d", "f">>
ExtEpub == <<".", "e", "p", "u", "b">>
Untitled == <<"U", "n", "t", "i", "t", "l", "e", "d">>

VARIABLES
    pages,               \* len(self.renderer.pages)
    book_type,           \* self.renderer.book_type: "none", "pdf" or "epub"
    current_book_title,
    current_index,
    current_font_size,
    current_zoom,        \* hundredths
    view_orientation,    \* "vertical" or "horizontal"
    base_font_size,
    zoom_ops,            \* zoom_in / zoom_out clicks so far
    last_op,             \* the handler that ran last
    outcome,             \* how it ended: "ok", "return" (early return), "error" (message box)
    loader,              \* the renderer loader the last open_file invoked
    last_path            \* the path the last open_file was given (<<>> otherwise)

viewer == <<current_book_title, current_index, current_font_size, current_zoom,
            view_orientation, base_font_size>>
renderer == <<pages, book_type>>
vars == <<pages, book_type, current_book_title, current_index, current_font_size,
          current_zoom, view_orientation, base_font_size, zoom_ops, last_op,
          outcome, loader, last_path>>

\* ----------------------------------------------------------------- helpers
Min(a, b) == IF a <= b THEN a ELSE b
Max(a, b) == IF a >= b THEN a ELSE b

\* str.lower() on one character of the alphabet the paths use.
LowerChar(c) ==
    CASE c = "A" -> "a" [] c = "B" -> "b" [] c = "D" -> "d" [] c = "E" -> "e"
      [] c = "F" -> "f" [] c = "P" -> "p" [] c = "U" -> "u" [] OTHER -> c

Lower(s) == [i \in 1..Len(s) |-> LowerChar(s[i])]

\* str.rfind + 1: the last position of c in s, 0 when absent.
LastIndexOf(s, c) ==
    LET hits == {i \in 1..Len(s) : s[i] = c}
    IN  IF hits = {} THEN 0 ELSE CHOOSE i \in hits : \A j \in hits : j <= i

\* os.path.splitext(path)[1]: from the last dot of the last path component,
\* unless that component has only dots before it.
splitext_ext(path) ==
    LET sepIndex == LastIndexOf(path, "/")
        dotIndex == LastIndexOf(path, ".")
    IN  IF /\ dotIndex > sepIndex
           /\ \E k \in (sepIndex + 1)..(dotIndex - 1) : path[k] # "."
        THEN SubSeq(path, dotIndex, Len(path))
        ELSE << >>

\* os.path.basename(path)
basename(path) == SubSeq(path, LastIndexOf(path, "/") + 1, Len(path))

\* Variant of no_pages: the early return of go_prev / go_next is missing.
no_pages_never(n) == FALSE

\* `not self.renderer.pages`
no_pages(n) == n = 0

\* step of go_prev / go_next
step(bt, orient) == IF bt = "pdf" /\ orient = "horizontal" THEN 2 ELSE 1

\* Variant of limit: the last index is not rounded down to an even one.
limit_unrounded(n, bt, orient) == n - 1

\* limit of go_next
limit(n, bt, orient) ==
    LET l == n - 1
    IN  IF bt = "pdf" /\ orient = "horizontal" /\ l % 2 # 0 THEN l - 1 ELSE l

\* int(self.base_font_size * (val/100.0)): truncation of a non-negative product.
\* (For the sizes and percents drawn here the float product truncates to the
\* exact quotient; it does not for base 25 with 116, 228, 232 and base 45 with
\* 140, 280.)
percent_font_size(base, val) == (base * val) \div 100

\* val/100.0 in hundredths
percent_zoom(val) == val

\* Variant of zoom_in_pdf: the upper clamp is missing.
zoom_in_pdf_unclamped(z) == z + ZoomStep

\* min(5.0, self.current_zoom + 0.1)
zoom_in_pdf(z) == Min(MaxZoom, z + ZoomStep)

\* min(60, self.current_font_size + 2)
zoom_in_font(f) == Min(MaxFontSize, f + FontStep)

\* max(0.1, self.current_zoom - 0.1)
zoom_out_pdf(z) == Max(MinZoom, z - ZoomStep)

\* max(8, self.current_font_size - 2)
zoom_out_font(f) == Max(MinFontSize, f - FontStep)

\* History of the last handler: its name, how it ended, the loader it invoked
\* and the path it was given.
Hist(op, out, ld, path) ==
    /\ last_op' = op
    /\ outcome' = out
    /\ loader' = ld
    /\ last_path' = path

\* Page counts a successful load can produce: a loaded PDF has at least one
\* page, and the EPUB loader never reports an empty page sequence.
LoadedPageCounts(most) == 1..most

\* renderer.load_pdf succeeded with n pages
load_pdf_ok(n) == pages' = n /\ book_type' = "pdf"

\* renderer.load_epub succeeded with n pages
load_epub_ok(n) == pages' = n /\ book_type' = "epub"

\* a loader raised: the renderer keeps the previously loaded document
load_raised == UNCHANGED renderer

\* -------------------------------------------------------------------- Init
InitWith(sizes) ==
    /\ pages = 0
    /\ book_type = "none"
    /\ current_book_title = Untitled
    /\ current_index = 0
    /\ base_font_size \in sizes
    /\ current_font_size = base_font_size
    /\ current_zoom = 100
    /\ view_orientation = "vertical"
    /\ zoom_ops = 0
    /\ last_op = "init"
    /\ outcome = "ok"
    /\ loader = "none"
    /\ last_path = << >>

\* ----------------------------------------------------------------- actions
go_prev ==
    /\ IF no_pages(pages)
       THEN UNCHANGED current_index
       ELSE current_index' = Max(0, current_index - step(book_type, view_orientation))
    /\ Hist("go_prev", IF no_pages(pages) THEN "return" ELSE "ok", "none", << >>)
    /\ UNCHANGED <<renderer, current_book_title, current_font_size, current_zoom,
                   view_orientation, base_font_size, zoom_ops>>

go_next ==
    /\ IF no_pages(pages)
       THEN UNCHANGED current_index
       ELSE current_index' = Min(limit(pages, book_type, view_orientation),
                                 current_index + step(book_type, view_orientation))
    /\ Hist("go_next", IF no_pages(pages) THEN "return" ELSE "ok", "none", << >>)
    /\ UNCHANGED <<renderer, current_book_title, current_font_size, current_zoom,
                   view_orientation, base_font_size, zoom_ops>>

\* Variant of zoom_in: one click moves both scale spaces.
zoom_in_both(budget) ==
    /\ zoom_ops < budget
    /\ zoom_ops' = zoom_ops + 1
    /\ current_zoom' = zoom_in_pdf(current_zoom)
    /\ current_font_size' = zoom_in_font(current_font_size)
    /\ Hist("zoom_in", "ok", "none", << >>)
    /\ UNCHANGED <<renderer, current_book_title, current_index, view_orientation,
                   base_font_size>>

zoom_in(budget) ==
    /\ zoom_ops < budget
    /\ zoom_ops' = zoom_ops + 1
    /\ IF book_type = "pdf"
       THEN current_zoom' = zoom_in_pdf(current_zoom) /\ UNCHANGED current_font_size
       ELSE current_font_size' = zoom_in_font(current_font_size) /\ UNCHANGED current_zoom
    /\ Hist("zoom_in", "ok", "none", << >>)
    /\ UNCHANGED <<renderer, current_book_title, current_index, view_orientation,
                   base_font_size>>

zoom_out(budget) ==
    /\ zoom_ops < budget
    /\ zoom_ops' = zoom_ops + 1
    /\ IF book_type = "pdf"
       THEN current_zoom' = zoom_out_pdf(current_zoom) /\ UNCHANGED current_font_size
       ELSE current_font_size' = zoom_out_font(current_font_size) /\ UNCHANGED current_zoom
    /\ Hist("zoom_out", "ok", "none", << >>)
    /\ UNCHANGED <<renderer, current_book_title, current_index, view_orientation,
                   base_font_size>>

zoom_label_clicked(percents) ==
    \/ \* the input dialog was cancelled
       /\ Hist("zoom_label_clicked", "return", "none", << >>)
       /\ UNCHANGED <<renderer, viewer, zoom_ops>>
    \/ \* accepted with val
       \E val \in percents :
          /\ IF book_type = "pdf"
             THEN /\ current_zoom' = percent_zoom(val)
                  /\ UNCHANGED current_font_size
             ELSE /\ current_font_size' = percent_font_size(base_font_size, val)
                  /\ UNCHANGED current_zoom
          /\ Hist("zoom_label_clicked", "ok", "none", << >>)
          /\ UNCHANGED <<renderer, current_book_title, current_index,
                         view_orientation, base_font_size, zoom_ops>>

set_view_orientation ==
    \E mode \in {"vertical", "horizontal"} :
       /\ view_orientation' = mode
       /\ Hist("set_view_orientation", "ok", "none", << >>)
       /\ UNCHANGED <<renderer, current_book_title, current_index, current_font_size,
                      current_zoom, base_font_size, zoom_ops>>

open_settings_dialog(sizes) ==
    \/ \* dialog rejected
       /\ Hist("open_settings_dialog", "return", "none", << >>)
       /\ UNCHANGED <<renderer, viewer, zoom_ops>>
    \/ \* dialog accepted with font_size v
       \E v \in sizes :
          /\ base_font_size' = v
          /\ current_font_size' = v
          /\ Hist("open_settings_dialog", "ok", "none", << >>)
          /\ UNCHANGED <<renderer, current_book_title, current_index, current_zoom,
                         view_orientation, zoom_ops>>

\* Variant of open_finish: the index of the previous document is kept.
open_finish_keep_index(path) ==
    /\ current_book_title' = basename(path)
    /\ UNCHANGED current_index

\* lines 351-352, reached after the loader calls returned
open_finish(path) ==
    /\ current_book_title' = basename(path)
    /\ current_index' = 0

\* the ".pdf" branch of open_file
open_pdf(path, most, zooms) ==
    \/ \* both returned
       \E n \in LoadedPageCounts(most), z \in zooms :
          /\ load_pdf_ok(n)
          /\ current_zoom' = z
          /\ open_finish(path)
          /\ UNCHANGED <<current_font_size, view_orientation, base_font_size>>
          /\ Hist("open_file", "ok", "load_pdf", path)
    \/ \* load_pdf returned, get_initial_zoom raised
       \E n \in LoadedPageCounts(most) :
          /\ load_pdf_ok(n)
          /\ UNCHANGED viewer
          /\ Hist("open_file", "error", "load_pdf", path)
    \/ \* load_pdf raised
       /\ load_raised
       /\ UNCHANGED viewer
       /\ Hist("open_file", "error", "load_pdf", path)

\* the ".epub" branch of open_file
open_epub(path, most) ==
    \/ \* load_epub returned
       \E n \in LoadedPageCounts(most) :
          /\ load_epub_ok(n)
          /\ current_font_size' = base_font_size
          /\ open_finish(path)
          /\ UNCHANGED <<current_zoom, view_orientation, base_font_size>>
          /\ Hist("open_file", "ok", "load_epub", path)
    \/ \* load_epub raised
       /\ load_raised
       /\ UNCHANGED viewer
       /\ Hist("open_file", "error", "load_epub", path)

open_file(paths, most, zooms) ==
    \E path \in paths :
       LET ext == Lower(splitext_ext(path))
       IN  /\ UNCHANGED zoom_ops
           /\ \/ \* `if not path: return`
                 /\ path = << >>
                 /\ UNCHANGED <<renderer, viewer>>
                 /\ Hist("open_file", "return", "none", path)
              \/ /\ path # << >>
                 /\ ext = ExtPdf
                 /\ open_pdf(path, most, zooms)
              \/ /\ path # << >>
                 /\ ext = ExtEpub
                 /\ open_epub(path, most)
              \/ \* `else: return`
                 /\ path # << >>
                 /\ ext \notin {ExtPdf, ExtEpub}
                 /\ UNCHANGED <<renderer, viewer>>
                 /\ Hist("open_file", "return", "none", path)

Init == InitWith(NavBaseSizes)

Next ==
    \/ open_file(Paths, MaxPages, NavInitialZooms)
    \/ go_prev
    \/ go_next
    \/ zoom_in(NavZoomOps)
    \/ zoom_out(NavZoomOps)
    \/ zoom_label_clicked(NavPercents)
    \/ set_view_orientation
    \/ open_settings_dialog(NavBaseSizes)

Spec == Init /\ [][Next]_vars

InitZoom == InitWith(BaseSizes)

NextZoom ==
    \/ open_file(ZoomPaths, ZoomPages, InitialZooms)
    \/ go_prev
    \/ go_next
    \/ zoom_in(MaxZoomOps)
    \/ zoom_out(MaxZoomOps)
    \/ zoom_label_clicked(Percents)
    \/ set_view_orientation
    \/ open_settings_dialog(BaseSizes)

SpecZoom == InitZoom /\ [][NextZoom]_vars

\* open_file in the runs where every renderer call returns: the except clause
\* is never entered.
open_file_returning(paths, most, zooms) ==
    \E path \in paths :
       LET ext == Lower(splitext_ext(path))
       IN  /\ UNCHANGED zoom_ops
           /\ \/ \* `if not path: return` and `else: return`
                 /\ path = << >> \/ ext \notin {ExtPdf, ExtEpub}
                 /\ UNCHANGED <<renderer, viewer>>
                 /\ Hist("open_file", "return", "none", path)
              \/ /\ path # << >>
                 /\ ext = ExtPdf
                 /\ \E n \in LoadedPageCounts(most), z \in zooms :
                       /\ load_pdf_ok(n)
                       /\ current_zoom' = z
                       /\ open_finish(path)
                       /\ UNCHANGED <<current_font_size, view_orientation,
                                      base_font_size>>
                       /\ Hist("open_file", "ok", "load_pdf", path)
              \/ /\ path # << >>
                 /\ ext = ExtEpub
                 /\ \E n \in LoadedPageCounts(most) :
                       /\ load_epub_ok(n)
                       /\ current_font_size' = base_font_size
                       /\ open_finish(path)
                       /\ UNCHANGED <<current_zoom, view_orientation, base_font_size>>
                       /\ Hist("open_file", "ok", "load_epub", path)

InitReturning == InitWith(NavBaseSizes)

NextReturning ==
    \/ open_file_returning(Paths, MaxPages, NavInitialZooms)
    \/ go_prev
    \/ go_next
    \/ zoom_in(NavZoomOps)
    \/ zoom_out(NavZoomOps)
    \/ zoom_label_clicked(NavPercents)
    \/ set_view_orientation
    \/ open_settings_dialog(NavBaseSizes)

\* The behaviours of Spec in which no renderer call raises.
SpecReturning == InitReturning /\ [][NextReturning]_vars

\* ------------------------------------------------------------------ claims
spread == book_type = "pdf" /\ view_orientation = "horizontal"

\* C1: whenever a document with at least one page is loaded, the index lies
\* in [0, page_count).
C1_IndexInRange ==
    pages >= 1 => (0 <= current_index /\ current_index < pages)

\* C2: whenever a PDF is shown in horizontal orientation (spread mode), the
\* index is even.
C2_SpreadIndexEven ==
    spread => current_index % 2 = 0

\* C3: an open_file that ends in a load error leaves title, index, zoom, font
\* size and the renderer's document as they were.
C3_LoadFailureLeavesState ==
    [][(last_op' = "open_file" /\ outcome' = "error")
         => UNCHANGED <<current_book_title, current_index, current_zoom,
                        current_font_size, pages, book_type>>]_vars

\* C4: with at least one page loaded, go_next moves the index to
\* min(upper_bound, index + step) and go_prev to max(0, index - step); step is
\* 2 and upper_bound the largest even index below page_count exactly for a PDF
\* in horizontal orientation, otherwise step is 1 and upper_bound
\* page_count - 1.
C4_NavigationFormula ==
    [][LET st == IF spread THEN 2 ELSE 1
           ub == IF spread THEN 2 * ((pages - 1) \div 2) ELSE pages - 1
       IN  /\ (pages >= 1 /\ last_op' = "go_next")
                => current_index' = Min(ub, current_index + st)
           /\ (pages >= 1 /\ last_op' = "go_prev")
                => current_index' = Max(0, current_index - st)]_vars

\* go_next has run on a two-page PDF in spread mode and stopped at the rounded
\* upper bound 0.
C4_Witness ==
    /\ last_op = "go_next"
    /\ spread
    /\ pages = 2
    /\ current_index = 0

\* C5: an accepted set-percentage with percent p sets, on an EPUB, the font
\* size to base_font_size * p / 100 rounded to nearest and clamped into
\* [8, 60], and on a PDF the zoom to p / 100 clamped into [0.1, 5.0].
C5_SetPercentClamped ==
    [][(last_op' = "zoom_label_clicked" /\ outcome' = "ok")
         => /\ book_type = "epub" =>
                 \E p \in Percents :
                    current_font_size' =
                       Max(8, Min(60, (2 * base_font_size * p + 100) \div 200))
            /\ book_type = "pdf" =>
                 \E p \in Percents : current_zoom' = Max(10, Min(500, p))]_vars

\* C6: zoom_in and zoom_out move by a fixed step and clamp (PDF: 0.1 within
\* [0.1, 5.0]; EPUB: 2 within [8, 60]), so a value inside its domain stays
\* inside.
C6_ZoomStepClamped ==
    [][/\ (last_op' = "zoom_in" /\ book_type = "pdf")
            => /\ current_zoom' = Min(500, current_zoom + 10)
               /\ current_zoom \in 10..500 => current_zoom' \in 10..500
       /\ (last_op' = "zoom_out" /\ book_type = "pdf")
            => /\ current_zoom' = Max(10, current_zoom - 10)
               /\ current_zoom \in 10..500 => current_zoom' \in 10..500
       /\ (last_op' = "zoom_in" /\ book_type = "epub")
            => /\ current_font_size' = Min(60, current_font_size + 2)
               /\ current_font_size \in 8..60 => current_font_size' \in 8..60
       /\ (last_op' = "zoom_out" /\ book_type = "epub")
            => /\ current_font_size' = Max(8, current_font_size - 2)
               /\ current_font_size \in 8..60 => current_font_size' \in 8..60]_vars

\* zoom_in has run on a PDF whose zoom was already at the upper bound.
C6_Witness ==
    /\ last_op = "zoom_in"
    /\ book_type = "pdf"
    /\ current_zoom = 500

\* C7: with a PDF loaded, zoom_in, zoom_out and set-percentage leave the font
\* size alone, and with an EPUB loaded they leave the zoom alone; opening a PDF
\* leaves the font size alone and opening an EPUB leaves the zoom alone.
C7_ScaleSpacesIndependent ==
    [][/\ (last_op' \in {"zoom_in", "zoom_out", "zoom_label_clicked"} /\ book_type = "pdf")
            => current_font_size' = current_font_size
       /\ (last_op' \in {"zoom_in", "zoom_out", "zoom_label_clicked"} /\ book_type = "epub")
            => current_zoom' = current_zoom
       /\ (last_op' = "open_file" /\ loader' = "load_pdf")
            => current_font_size' = current_font_size
       /\ (last_op' = "open_file" /\ loader' = "load_epub")
            => current_zoom' = current_zoom]_vars

\* zoom_in has run on an EPUB after the PDF zoom was left at its upper bound.
C7_Witness ==
    /\ last_op = "zoom_in"
    /\ book_type = "epub"
    /\ current_zoom = 500
    /\ current_font_size = base_font_size + 2

\* C8: a successful open_file leaves the index at 0 and carries the
\* orientation over.
C8_OpenResetsIndex ==
    [][(last_op' = "open_file" /\ outcome' = "ok")
         => /\ current_index' = 0
            /\ view_orientation' = view_orientation]_vars

\* A second document has just been opened in horizontal orientation after the
\* zoom of the first one was changed.
C8_Witness ==
    /\ last_op = "open_file"
    /\ outcome = "ok"
    /\ view_orientation = "horizontal"
    /\ zoom_ops > 0
    /\ current_index = 0

\* C9: open_file on a non-empty path dispatches on the lowercased extension:
\* ".pdf" invokes the PDF loader, ".epub" the EPUB loader, and any other
\* extension invokes no loader, ends in an error outcome and leaves title,
\* index, zoom and font size unchanged.
C9_DispatchOnExtension ==
    [][(last_op' = "open_file" /\ last_path' # << >>)
         => LET ext == Lower(splitext_ext(last_path'))
            IN  /\ ext = ExtPdf => loader' = "load_pdf"
                /\ ext = ExtEpub => loader' = "load_epub"
                /\ ext \notin {ExtPdf, ExtEpub}
                     => /\ loader' = "none"
                        /\ outcome' = "error"
                        /\ UNCHANGED <<current_book_title, current_index,
                                       current_zoom, current_font_size>>]_vars

\* C10: with no pages loaded, go_prev and go_next change neither the index
\* nor any other viewer or renderer field.
C10_NoPagesNoOp ==
    [][(pages = 0 /\ last_op' \in {"go_prev", "go_next"})
         => UNCHANGED <<viewer, renderer>>]_vars

\* go_next has run with no document loaded, in horizontal orientation.
C10_Witness ==
    /\ pages = 0
    /\ last_op = "go_next"
    /\ view_orientation = "horizontal"

\* C11: navigation is monotone: go_next never lowers the index and go_prev
\* never raises it, in every reachable state, also when go_next follows a
\* switch to horizontal orientation on the last page of a PDF with an even
\* page count.
C11_NavigationMonotone ==
    [][/\ last_op' = "go_next" => current_index' >= current_index
       /\ last_op' = "go_prev" => current_index' <= current_index]_vars
=============================================================================
